---- MODULE Spec2Model ----
(***************************************************************************)
(* Model of the database layer of Jacobbishopxy/playground:                *)
(*   - tiny-df/src/db/loader.rs : the Engine implementations of the three  *)
(*     sqlx pools (update inside a transaction) and the Loader facade;     *)
(*   - fabrix/src/sources/db/sql_builder/builder.rs : the conversion       *)
(*     between fabrix Value and sea-query Value.                           *)
(***************************************************************************)
EXTENDS Integers, Sequences, FiniteSets, TLC

VARIABLES
    driver,         \* Loader.driver
    conn,           \* Loader.conn
    pool,           \* Loader.pool: "None", or the dialect of the boxed pool
    db,             \* committed rows of the table, as any connection sees them
    work,           \* rows as seen inside the open transaction
    txOpen,         \* a sqlx Transaction is alive and neither committed nor rolled back
    pc,             \* position of the running Engine::update future
    queries,        \* update: the statements of the batch
    qi,             \* update: index of the next statement of `queries.iter()`
    affected_rows,  \* update: the accumulator
    snapshot,       \* db as it was when the running/last update was called
    log,            \* driver calls issued by the running/last operation
    result,         \* what the last operation returned to its caller
    bIn,            \* value bridge: the input of the last conversion
    bOut,           \* value bridge: result of try_from_value_to_svalue
    bBack,          \* value bridge: result of _from_svalue_to_value
    save_option,    \* Engine::save: the strategy of the last call, or "None"
    fTree,          \* filter_builder: the expressions `flt`
    fStmt,          \* filter_builder: the statement `s` after the call
    dIn,            \* dialect: the text given to from_str
    dOut,           \* dialect: the driver from_str chose
    iIn,            \* IndexOption::try_from_series: the series
    iOut,           \* IndexOption::try_from_series: the result
    rows,           \* raw_fetch: the rows the driver yields for the query
    ri,             \* raw_fetch: index of the next row given to the try_map closure
    columns,        \* raw_fetch: the local `columns`
    should_update_col,  \* raw_fetch: the local flag of the closure
    d2,             \* raw_fetch: the rows mapped so far, then the local `d2`
    fetch_pc,       \* raw_fetch: position of the future
    fetched         \* raw_fetch: what the call returned

vars == <<driver, conn, pool, db, work, txOpen, pc, queries, qi, affected_rows,
          snapshot, log, result, bIn, bOut, bBack, save_option, fTree, fStmt,
          dIn, dOut, iIn, iOut,
          rows, ri, columns, should_update_col, d2, fetch_pc, fetched>>

loaderVars == <<driver, conn, pool>>
updateVars == <<work, txOpen, pc, queries, qi, affected_rows, snapshot>>
bridgeVars == <<bIn, bOut, bBack>>
sqlVars == <<fTree, fStmt, dIn, dOut, iIn, iOut>>
fetchVars == <<rows, ri, columns, should_update_col, d2, fetch_pc, fetched>>

----------------------------------------------------------------------------
(* Bounds *)

MaxBatch == 2

\* the ids and the values of the rows: two of each
Keys == {1, 2}
Vals == {0, 1}
NoRow == -1

\* a table state: every key has a row with a value, or no row
Tables == [Keys -> Vals \cup {NoRow}]

\* an UPDATE statement produced for one dataframe row: set the row of `key` to `val`
Statements == [key : Keys, val : Vals]

RECURSIVE SeqsUpTo(_, _)
SeqsUpTo(S, n) ==
    IF n = 0 THEN {<<>>}
    ELSE LET shorter == SeqsUpTo(S, n - 1)
         IN  shorter \cup {Append(s, x) : s \in {t \in shorter : Len(t) = n - 1}, x \in S}

Batches == SeqsUpTo(Statements, MaxBatch)

----------------------------------------------------------------------------
(* Loader and its dialects *)

Dialects == {"Mysql", "Postgres", "Sqlite"}

\* the connection strings of the tests, as <scheme, rest>
CONN1 == [scheme |-> "mysql", rest |-> "//root:secret@localhost:3306/dev"]
CONN2 == [scheme |-> "postgres", rest |-> "//root:secret@localhost:5432/dev"]
CONN3 == [scheme |-> "sqlite", rest |-> "cache/dev.sqlite"]

ConnStrings == {CONN1, CONN2, CONN3}

\* impl From<&str> for the dialect enum
SqlFrom(v) ==
    CASE v \in {"mysql", "m"} -> "Mysql"
      [] v \in {"postgres", "p"} -> "Postgres"
      [] OTHER -> "Sqlite"

NoErr == [src |-> "", msg |-> "", at |-> 0]
DB_COMMON_ERROR == [src |-> "Common", msg |-> "Loader pool not set", at |-> 0]
\* `e.into()` / `?` on a sqlx::Error: the driver's error, wrapped unchanged
SqlxError(what, k) == [src |-> "Sqlx", msg |-> what, at |-> k]

Ok(op, n) == [op |-> op, kind |-> "Ok", err |-> NoErr, val |-> n]
Err(op, e) == [op |-> op, kind |-> "Err", err |-> e, val |-> 0]
Pending(op) == [op |-> op, kind |-> "Pending", err |-> NoErr, val |-> 0]
Cancelled(op, inCommit) ==
    [op |-> op, kind |-> IF inCommit THEN "CancelledInCommit" ELSE "Cancelled",
     err |-> NoErr, val |-> 0]

Call(c, k, ok) == [call |-> c, idx |-> k, ok |-> ok]

DataOps == {"get_table_schema", "raw_fetch", "create_table", "insert"}

\* a from_str that keeps only the dialect token of its input
LoaderFromStrToken(c) ==
    [driver |-> SqlFrom(c.scheme), conn |-> [scheme |-> c.scheme, rest |-> ""], pool |-> "None"]

\* Loader::from_str: the dialect is read from the text before the first ':'
LoaderFromStr(c) == [driver |-> SqlFrom(c.scheme), conn |-> c, pool |-> "None"]

\* impl Display for the dialect enum
DialectName(d) ==
    CASE d = "Mysql" -> "mysql"
      [] d = "Postgres" -> "postgres"
      [] d = "Sqlite" -> "sqlite"

\* the ConnInfo values of the tests
ConnInfos ==
    {[driver |-> "Mysql", username |-> "root", password |-> "secret",
      host |-> "localhost", port |-> 3306, database |-> "dev"],
     [driver |-> "Postgres", username |-> "root", password |-> "secret",
      host |-> "localhost", port |-> 5432, database |-> "dev"]}

\* ConnInfo::to_string: "<dialect>://<user>:<password>@<host>:<port>/<database>"
ConnInfoToString(ci) ==
    [scheme |-> DialectName(ci.driver),
     rest |-> "//" \o ci.username \o ":" \o ci.password \o "@" \o ci.host
              \o ":" \o ToString(ci.port) \o "/" \o ci.database]

\* Loader::new
LoaderNew(ci) == [driver |-> ci.driver, conn |-> ConnInfoToString(ci), pool |-> "None"]

Loaders == {LoaderFromStr(c) : c \in ConnStrings} \cup {LoaderNew(ci) : ci \in ConnInfos}

\* a connect that forgets the old pool when the new connection fails
ConnectPoolReset(drv, old, ok) == IF ok THEN drv ELSE "None"

\* a connect whose arms all open the pool of one dialect
ConnectPoolSqlite(drv, old, ok) == IF ok THEN "Sqlite" ELSE old

\* Loader::connect: on Ok the pool of the Loader's dialect is stored, on Err
\* nothing is assigned
ConnectPool(drv, old, ok) == IF ok THEN drv ELSE old

\* the locals of a finished update are gone once the caller goes on
ForgetUpdate(d) ==
    /\ work' = d
    /\ queries' = <<>>
    /\ qi' = 1
    /\ affected_rows' = 0
    /\ snapshot' = d
    /\ save_option' = "None"
    /\ UNCHANGED <<txOpen, pc>>

Connect ==
    /\ pc = "idle"
    /\ \E ok \in BOOLEAN :
        /\ pool' = ConnectPool(driver, pool, ok)
        /\ log' = <<Call("connect", 0, ok)>>
        /\ result' = IF ok THEN Ok("connect", 0)
                     ELSE Err("connect", SqlxError("connect", 0))
    /\ ForgetUpdate(db)
    /\ UNCHANGED <<driver, conn, db, bridgeVars, sqlVars, fetchVars>>

\* a facade that uses the pool without looking whether it is there
PoolUnchecked(p) == TRUE

\* the `match &self.pool` of every data operation of the Loader
PoolGuard(p) == p # "None"

\* the three reading/DDL operations: one query through the pool, no row changes
LoaderQuery(op) ==
    /\ pc = "idle"
    /\ IF PoolGuard(pool)
       THEN \E ok \in BOOLEAN :
              /\ log' = <<Call("query", 0, ok)>>
              /\ result' = IF ok THEN Ok(op, 0) ELSE Err(op, SqlxError("query", 0))
       ELSE /\ log' = <<>>
            /\ result' = Err(op, DB_COMMON_ERROR)
    /\ ForgetUpdate(db)
    /\ UNCHANGED <<loaderVars, db, bridgeVars, sqlVars, fetchVars>>

GetTableSchema == LoaderQuery("get_table_schema")
RawFetch == LoaderQuery("raw_fetch")
CreateTable == LoaderQuery("create_table")

\* Loader::insert: one INSERT executed on the pool (auto-commit)
Insert ==
    /\ pc = "idle"
    /\ IF PoolGuard(pool)
       THEN \E k \in Keys, v \in Vals, ok \in BOOLEAN :
              LET done == ok /\ db[k] = NoRow
              IN  /\ log' = <<Call("query", 0, done)>>
                  /\ db' = IF done THEN [db EXCEPT ![k] = v] ELSE db
                  /\ result' = IF done THEN Ok("insert", 1)
                               ELSE Err("insert", SqlxError("query", 0))
       ELSE /\ log' = <<>>
            /\ db' = db
            /\ result' = Err("insert", DB_COMMON_ERROR)
    /\ ForgetUpdate(db')
    /\ UNCHANGED <<loaderVars, bridgeVars, sqlVars, fetchVars>>

----------------------------------------------------------------------------
(* Engine::update of the three pools *)

\* rows changed by one UPDATE statement
RowsAffected(t, q) == IF t[q.key] = NoRow THEN 0 ELSE 1

ApplyStmt(t, q) == IF t[q.key] = NoRow THEN t ELSE [t EXCEPT ![q.key] = q.val]

\* a mis-wired execute: the statement runs on the pool, outside the transaction
ExecuteOnPool(d, w, q) == [db |-> ApplyStmt(d, q), work |-> ApplyStmt(w, q)]

\* `sqlx::query(que).execute(&mut transaction)`: only the transaction sees the change
ExecuteInTx(d, w, q) == [db |-> d, work |-> ApplyStmt(w, q)]

\* a leaked transaction: nothing is rolled back when the scope is left
LeakTransaction(open, lg) == [open |-> open, log |-> lg]

\* the `transaction` local going out of scope (early return by `?`, or the
\* future being dropped): an open transaction is rolled back
DropTransaction(open, lg) ==
    [open |-> FALSE,
     log |-> IF open THEN Append(lg, Call("rollback", 0, TRUE)) ELSE lg]

\* a loop that ignores a failed statement and goes on with the next one
ContinueAfterError(ok) == TRUE

\* `.await?` inside the for loop: the loop goes on only after a success
ContinueAfter(ok) == ok

\* an accumulator that keeps only the count of the last statement
AccumulateLast(acc, n) == n

\* `affected_rows += ...rows_affected()`
Accumulate(acc, n) == acc + n

\* `queries.iter()`: every statement is visited once, in list order
NextQuery(i, ok) == i + 1

UpdateCall ==
    /\ pc = "idle"
    /\ PoolGuard(pool)
    /\ \E qs \in Batches : queries' = qs
    /\ pc' = "begin"
    /\ snapshot' = db
    /\ qi' = 1
    /\ affected_rows' = 0
    /\ log' = <<>>
    /\ result' = Pending("update")
    /\ save_option' = "None"
    /\ UNCHANGED <<loaderVars, db, work, txOpen, bridgeVars, sqlVars, fetchVars>>

\* `let mut transaction = self.begin().await?;`
Begin ==
    /\ pc = "begin"
    /\ \E ok \in BOOLEAN :
        /\ log' = Append(log, Call("begin", 0, ok))
        /\ IF ok
           THEN /\ txOpen' = TRUE
                /\ work' = db
                /\ pc' = "loop"
                /\ result' = result
           ELSE /\ txOpen' = FALSE
                /\ work' = work
                /\ pc' = "idle"
                /\ result' = Err("update", SqlxError("begin", 0))
    /\ UNCHANGED <<loaderVars, db, queries, qi, affected_rows, snapshot, bridgeVars, sqlVars, save_option, fetchVars>>

\* one iteration of `for que in queries.iter()`
ExecStmt ==
    /\ pc = "loop"
    /\ qi <= Len(queries)
    /\ \E ok \in BOOLEAN :
        LET q == queries[qi]
            lg == Append(log, Call("execute", qi, ok))
            eff == ExecuteInTx(db, work, q)
            dropped == DropTransaction(txOpen, lg)
        IN  /\ qi' = NextQuery(qi, ok)
            /\ IF ok
               THEN /\ db' = eff.db
                    /\ work' = eff.work
                    /\ affected_rows' = Accumulate(affected_rows, RowsAffected(work, q))
               ELSE UNCHANGED <<db, work, affected_rows>>
            /\ IF ContinueAfter(ok)
               THEN /\ log' = lg
                    /\ UNCHANGED <<txOpen, pc, result>>
               ELSE /\ log' = dropped.log
                    /\ txOpen' = dropped.open
                    /\ pc' = "idle"
                    /\ result' = Err("update", SqlxError("execute", qi))
    /\ UNCHANGED <<loaderVars, queries, snapshot, bridgeVars, sqlVars, save_option, fetchVars>>

\* `transaction.commit().await?; Ok(affected_rows)`
Commit ==
    /\ pc = "loop"
    /\ qi > Len(queries)
    /\ \E ok \in BOOLEAN :
        LET lg == Append(log, Call("commit", 0, ok))
            dropped == DropTransaction(txOpen, lg)
        IN  IF ok
            THEN /\ db' = work
                 /\ txOpen' = FALSE
                 /\ log' = lg
                 /\ result' = Ok("update", affected_rows)
            ELSE /\ db' = db
                 /\ txOpen' = dropped.open
                 /\ log' = dropped.log
                 /\ result' = Err("update", SqlxError("commit", 0))
    /\ pc' = "idle"
    /\ UNCHANGED <<loaderVars, work, queries, qi, affected_rows, snapshot, bridgeVars, sqlVars, save_option, fetchVars>>

\* the update future is dropped while suspended at `begin().await` or at an
\* `execute(..).await`, or between two of them: the locals are dropped
Cancel ==
    /\ pc \in {"begin", "loop"}
    /\ LET dropped == DropTransaction(txOpen, log)
       IN  /\ txOpen' = dropped.open
           /\ log' = dropped.log
    /\ pc' = "idle"
    /\ result' = Cancelled("update", FALSE)
    /\ UNCHANGED <<loaderVars, db, work, queries, qi, affected_rows, snapshot, bridgeVars, sqlVars, save_option, fetchVars>>

\* the update future is dropped while suspended at `commit().await`: the
\* COMMIT may or may not have reached the database
CancelInCommit ==
    /\ pc = "loop"
    /\ qi > Len(queries)
    /\ \E sent \in BOOLEAN :
        LET lg == Append(log, Call("commit", 0, sent))
            dropped == DropTransaction(~sent, lg)
        IN  /\ db' = IF sent THEN work ELSE db
            /\ txOpen' = dropped.open
            /\ log' = dropped.log
    /\ pc' = "idle"
    /\ result' = Cancelled("update", TRUE)
    /\ UNCHANGED <<loaderVars, work, queries, qi, affected_rows, snapshot, bridgeVars, sqlVars, save_option, fetchVars>>

\* enum SaveStrategy
SaveStrategies == {"Replace", "Append", "Upsert", "Fail"}

\* the unwinding of the `todo!()` that is the body of Engine::save
Panicked(op) ==
    [op |-> op, kind |-> "Panic",
     err |-> [src |-> "panic", msg |-> "not yet implemented", at |-> 0], val |-> 0]

\* Engine::save of the three pools
Save ==
    /\ pc = "idle"
    /\ PoolGuard(pool)
    /\ \E st \in SaveStrategies : save_option' = st
    /\ log' = <<>>
    /\ result' = Panicked("save")
    /\ work' = db
    /\ queries' = <<>>
    /\ qi' = 1
    /\ affected_rows' = 0
    /\ snapshot' = db
    /\ UNCHANGED <<loaderVars, db, txOpen, pc, bridgeVars, sqlVars, fetchVars>>

----------------------------------------------------------------------------
(* Value bridge: fabrix Value <-> sea-query Value (SValue) *)

\* polars DataType, the declared type of a column
SupportedDTypes ==
    {"Boolean", "UInt8", "UInt16", "UInt32", "UInt64", "Int8", "Int16", "Int32",
     "Int64", "Float32", "Float64", "Utf8"}
UnsupportedDTypes ==
    {"Date32", "Date64", "Time64", "List", "Duration", "Null", "Categorical"}
DTypes == SupportedDTypes \cup UnsupportedDTypes

\* variants of fabrix Value
SupportedValueTags ==
    {"Bool", "U8", "U16", "U32", "U64", "I8", "I16", "I32", "I64", "F32", "F64", "String"}
DateValueTags == {"Date", "Time", "DateTime"}

\* variants of SValue that _from_svalue_to_value names; "Bytes" stands for
\* the variants that reach its `_` arm
NumericSValueTags ==
    {"Bool", "TinyInt", "SmallInt", "Int", "BigInt", "TinyUnsigned", "SmallUnsigned",
     "Unsigned", "BigUnsigned", "Float", "Double"}
DateSValueTags == {"Date", "Time", "DateTime"}
SValueTags == NumericSValueTags \cup DateSValueTags \cup {"String", "Uuid", "Bytes"}

\* the Rust type a variant carries
ValuePayloadType(tag) ==
    CASE tag = "Bool" -> "bool"
      [] tag = "U8" -> "u8"
      [] tag = "U16" -> "u16"
      [] tag = "U32" -> "u32"
      [] tag = "U64" -> "u64"
      [] tag = "I8" -> "i8"
      [] tag = "I16" -> "i16"
      [] tag = "I32" -> "i32"
      [] tag = "I64" -> "i64"
      [] tag = "F32" -> "f32"
      [] tag = "F64" -> "f64"
      [] tag = "String" -> "String"
      [] tag = "Date" -> "NaiveDate"
      [] tag = "Time" -> "NaiveTime"
      [] tag = "DateTime" -> "NaiveDateTime"

SValuePayloadType(tag) ==
    CASE tag = "Bool" -> "bool"
      [] tag = "TinyInt" -> "i8"
      [] tag = "SmallInt" -> "i16"
      [] tag = "Int" -> "i32"
      [] tag = "BigInt" -> "i64"
      [] tag = "TinyUnsigned" -> "u8"
      [] tag = "SmallUnsigned" -> "u16"
      [] tag = "Unsigned" -> "u32"
      [] tag = "BigUnsigned" -> "u64"
      [] tag = "Float" -> "f32"
      [] tag = "Double" -> "f64"
      [] tag = "String" -> "String"
      [] tag = "Date" -> "NaiveDate"
      [] tag = "Time" -> "NaiveTime"
      [] tag = "DateTime" -> "NaiveDateTime"
      [] tag = "Uuid" -> "Uuid"
      [] tag = "Bytes" -> "Vec<u8>"

\* sample payloads of every Rust type, written as text
PayloadsOf(t) ==
    CASE t = "bool" -> {"false", "true"}
      [] t = "u8" -> {"0", "255"}
      [] t = "u16" -> {"0", "65535"}
      [] t = "u32" -> {"0", "4294967295"}
      [] t = "u64" -> {"0", "18446744073709551615"}
      [] t = "i8" -> {"-128", "127"}
      [] t = "i16" -> {"-32768", "32767"}
      [] t = "i32" -> {"-2147483648", "2147483647"}
      [] t = "i64" -> {"-9223372036854775808", "9223372036854775807"}
      [] t = "f32" -> {"0.0", "1.5"}
      [] t = "f64" -> {"0.0", "-2.25"}
      [] t = "String" -> {"", "Jacob"}
      [] t = "NaiveDate" -> {"2010-01-01"}
      [] t = "NaiveTime" -> {"01:10:00"}
      [] t = "NaiveDateTime" -> {"2010-01-01 01:10:00"}
      [] t = "Uuid" -> {"936da01f9abd4d9d80c702af85c822a8"}
      [] t = "Vec<u8>" -> {"00ff"}

ValueNull == [tag |-> "Null", payload |-> ""]
MkValue(tag, p) == [tag |-> tag, payload |-> p]
NoValue == [tag |-> "-", payload |-> ""]

Values ==
    {ValueNull} \cup
    UNION {{MkValue(tag, p) : p \in PayloadsOf(ValuePayloadType(tag))} :
            tag \in SupportedValueTags \cup DateValueTags}

SNone(tag) == [tag |-> tag, some |-> FALSE, payload |-> ""]
SSome(tag, p) == [tag |-> tag, some |-> TRUE, payload |-> p]
NoSValue == [tag |-> "-", some |-> FALSE, payload |-> ""]

SValues ==
    UNION {{SNone(tag)} \cup {SSome(tag, p) : p \in PayloadsOf(SValuePayloadType(tag))} :
            tag \in SValueTags}

\* FabrixResult<T>, or the unwinding of a `todo!()`
NoFabrixError == [variant |-> "", msg |-> ""]
ParseError(dtype) == [variant |-> "Parse", msg |-> dtype]
CommonError(msg) == [variant |-> "Common", msg |-> msg]
ROk(v) == [kind |-> "Ok", val |-> v, err |-> NoFabrixError]
RErr(none, e) == [kind |-> "Err", val |-> none, err |-> e]
Todo(none) == [kind |-> "Panic", val |-> none, err |-> [variant |-> "", msg |-> "not yet implemented"]]

\* the Rust type of the values of a column of a polars DataType
DTypeNative(dtype) ==
    CASE dtype = "Boolean" -> "bool"
      [] dtype = "UInt8" -> "u8"
      [] dtype = "UInt16" -> "u16"
      [] dtype = "UInt32" -> "u32"
      [] dtype = "UInt64" -> "u64"
      [] dtype = "Int8" -> "i8"
      [] dtype = "Int16" -> "i16"
      [] dtype = "Int32" -> "i32"
      [] dtype = "Int64" -> "i64"
      [] dtype = "Float32" -> "f32"
      [] dtype = "Float64" -> "f64"
      [] dtype = "Utf8" -> "String"

\* the signedness slip: the null of an unsigned 8-bit column is a signed one
NullSValueTagSigned(dtype) ==
    CASE dtype = "Boolean" -> "Bool"
      [] dtype = "UInt8" -> "TinyInt"
      [] dtype = "UInt16" -> "SmallUnsigned"
      [] dtype = "UInt32" -> "Unsigned"
      [] dtype = "UInt64" -> "BigUnsigned"
      [] dtype = "Int8" -> "TinyInt"
      [] dtype = "Int16" -> "SmallInt"
      [] dtype = "Int32" -> "Int"
      [] dtype = "Int64" -> "BigInt"
      [] dtype = "Float32" -> "Float"
      [] dtype = "Float64" -> "Double"
      [] dtype = "Utf8" -> "String"

\* from_data_type_to_null_svalue, for the types that have an arm with a value
NullSValueTag(dtype) ==
    CASE dtype = "Boolean" -> "Bool"
      [] dtype = "UInt8" -> "TinyUnsigned"
      [] dtype = "UInt16" -> "SmallUnsigned"
      [] dtype = "UInt32" -> "Unsigned"
      [] dtype = "UInt64" -> "BigUnsigned"
      [] dtype = "Int8" -> "TinyInt"
      [] dtype = "Int16" -> "SmallInt"
      [] dtype = "Int32" -> "Int"
      [] dtype = "Int64" -> "BigInt"
      [] dtype = "Float32" -> "Float"
      [] dtype = "Float64" -> "Double"
      [] dtype = "Utf8" -> "String"

from_data_type_to_null_svalue(dtype) ==
    IF dtype \in SupportedDTypes THEN ROk(SNone(NullSValueTag(dtype)))
    ELSE Todo(NoSValue)

\* the width slip: a 16-bit unsigned value is sent as a 32-bit one
SValueTagOfWide(tag) ==
    CASE tag = "Bool" -> "Bool"
      [] tag = "U8" -> "TinyUnsigned"
      [] tag = "U16" -> "Unsigned"
      [] tag = "U32" -> "Unsigned"
      [] tag = "U64" -> "BigUnsigned"
      [] tag = "I8" -> "TinyInt"
      [] tag = "I16" -> "SmallInt"
      [] tag = "I32" -> "Int"
      [] tag = "I64" -> "BigInt"
      [] tag = "F32" -> "Float"
      [] tag = "F64" -> "Double"
      [] tag = "String" -> "String"

\* the arms of try_from_value_to_svalue for the variants that carry a payload
SValueTagOf(tag) ==
    CASE tag = "Bool" -> "Bool"
      [] tag = "U8" -> "TinyUnsigned"
      [] tag = "U16" -> "SmallUnsigned"
      [] tag = "U32" -> "Unsigned"
      [] tag = "U64" -> "BigUnsigned"
      [] tag = "I8" -> "TinyInt"
      [] tag = "I16" -> "SmallInt"
      [] tag = "I32" -> "Int"
      [] tag = "I64" -> "BigInt"
      [] tag = "F32" -> "Float"
      [] tag = "F64" -> "Double"
      [] tag = "String" -> "String"

\* a Null arm that does not look at the nullability of the column
NullArmUnchecked(dtype, nullable) == from_data_type_to_null_svalue(dtype)

\* the Value::Null arm of try_from_value_to_svalue
NullArm(dtype, nullable) ==
    IF nullable THEN from_data_type_to_null_svalue(dtype)
    ELSE RErr(NoSValue, ParseError(dtype))

try_from_value_to_svalue(value, dtype, nullable) ==
    CASE value.tag \in SupportedValueTags ->
            ROk(SSome(SValueTagOf(value.tag), value.payload))
      [] value.tag \in DateValueTags -> Todo(NoSValue)
      [] value.tag = "Null" -> NullArm(dtype, nullable)

\* `value!(v)` on a payload of Rust type t: the Value variant that carries t
ValueTagFrom(t) ==
    CASE t = "bool" -> "Bool"
      [] t = "u8" -> "U8"
      [] t = "u16" -> "U16"
      [] t = "u32" -> "U32"
      [] t = "u64" -> "U64"
      [] t = "i8" -> "I8"
      [] t = "i16" -> "I16"
      [] t = "i32" -> "I32"
      [] t = "i64" -> "I64"
      [] t = "f32" -> "F32"
      [] t = "f64" -> "F64"
      [] t = "String" -> "String"

\* `value!(Some(v))` is the variant of v, `value!(None)` is Value::Null
ValueFromOption(t, some, p) == IF some THEN MkValue(ValueTagFrom(t), p) ELSE ValueNull

\* Uuid::to_string: the hyphenated form of the 32 hex digits
RECURSIVE Concat(_)
Concat(parts) == IF parts = <<>> THEN "" ELSE Head(parts) \o Concat(Tail(parts))

UuidGroups ==
    [u \in PayloadsOf("Uuid") |->
        <<"936da01f", "-", "9abd", "-", "4d9d", "-", "80c7", "-", "02af85c822a8">>]
UuidToString(u) == Concat(UuidGroups[u])

\* macro sv_2_v
sv_2_v(t, some, p, nullable) ==
    IF nullable THEN ROk(ValueFromOption(t, some, p))
    ELSE IF some THEN ROk(MkValue(ValueTagFrom(t), p))
         ELSE RErr(NoValue, CommonError("unsupported type"))

_from_svalue_to_value(svalue, nullable) ==
    CASE svalue.tag \in NumericSValueTags ->
            sv_2_v(SValuePayloadType(svalue.tag), svalue.some, svalue.payload, nullable)
      [] svalue.tag = "String" ->
            IF svalue.some THEN ROk(MkValue(ValueTagFrom("String"), svalue.payload))
            ELSE ROk(ValueFromOption("String", FALSE, ""))
      [] svalue.tag \in DateSValueTags -> Todo(NoValue)
      [] svalue.tag = "Uuid" ->
            IF svalue.some THEN ROk(MkValue(ValueTagFrom("String"), UuidToString(svalue.payload)))
            ELSE ROk(ValueFromOption("String", FALSE, ""))
      [] OTHER -> RErr(NoValue, CommonError("unsupported type"))

NoResult(none) == [kind |-> "None", val |-> none, err |-> NoFabrixError]
Given(sv) == [kind |-> "Given", val |-> sv, err |-> NoFabrixError]

\* a cell of a dataframe is bridged to the neutral value
ToNeutral ==
    /\ \E v \in Values, dtype \in DTypes, nullable \in BOOLEAN :
        /\ bIn' = [value |-> v, dtype |-> dtype, nullable |-> nullable]
        /\ bOut' = try_from_value_to_svalue(v, dtype, nullable)
    /\ bBack' = NoResult(NoValue)
    /\ UNCHANGED <<sqlVars, save_option, loaderVars, db, updateVars, log, result, fetchVars>>

\* the neutral value just produced is bridged back
FromNeutral ==
    /\ bOut.kind = "Ok"
    /\ bBack.kind = "None"
    /\ bBack' = _from_svalue_to_value(bOut.val, bIn.nullable)
    /\ UNCHANGED <<sqlVars, save_option, loaderVars, db, updateVars, log, result, bIn, bOut, fetchVars>>

\* a neutral value read from a row is bridged to a cell
FromRow ==
    /\ \E sv \in SValues, nullable \in BOOLEAN :
        /\ bIn' = [value |-> NoValue, dtype |-> "-", nullable |-> nullable]
        /\ bOut' = Given(sv)
        /\ bBack' = _from_svalue_to_value(sv, nullable)
    /\ UNCHANGED <<sqlVars, save_option, loaderVars, db, updateVars, log, result, fetchVars>>

----------------------------------------------------------------------------
(* Specification of the Loader and the Engine *)

\* nothing compiled, parsed or derived yet
NoFilter == [kind |-> "None", where |-> <<>>]
NoIndex == [kind |-> "None", name |-> "", index_type |-> ""]

SqlIdle ==
    /\ fTree = <<>>
    /\ fStmt = NoFilter
    /\ dIn = <<>>
    /\ dOut = "None"
    /\ iIn = [name |-> "", dtype |-> "-"]
    /\ iOut = NoIndex

----------------------------------------------------------------------------
(* Dialect of a connection string *)

\* a text is a sequence of characters

UpperChars == <<"M", "Y", "S", "Q", "L", "P", "O", "T", "G", "R", "E", "I">>
LowerChars == <<"m", "y", "s", "q", "l", "p", "o", "t", "g", "r", "e", "i">>

\* char::to_lowercase on the letters of the sample texts
ToLowerChar(c) ==
    IF \E i \in 1..Len(UpperChars) : UpperChars[i] = c
    THEN LowerChars[CHOOSE i \in 1..Len(UpperChars) : UpperChars[i] = c]
    ELSE c

\* a match on the text as it was given
ToLowercaseNoop(w) == w

\* str::to_lowercase
ToLowercase(w) == [i \in 1..Len(w) |-> ToLowerChar(w[i])]

\* impl From<&str> for SqlBuilder: the arms are matched on the lowercased text
SqlBuilderFrom(w) == SqlFrom(Concat(ToLowercase(w)))

\* `conn_str.split(":").next()`: the text before the first ':', all of it
\* when there is none
RECURSIVE SplitNext(_)
SplitNext(w) ==
    IF w = <<>> \/ Head(w) = ":" THEN <<>>
    ELSE <<Head(w)>> \o SplitNext(Tail(w))

\* the driver chosen by Loader::from_str
FromStrDriver(w) == SqlBuilderFrom(SplitNext(w))

\* every casing of a lowercase word
RECURSIVE Casings(_)
Casings(w) ==
    IF w = <<>> THEN {<<>>}
    ELSE LET c == Head(w)
             up == IF \E i \in 1..Len(LowerChars) : LowerChars[i] = c
                   THEN UpperChars[CHOOSE i \in 1..Len(LowerChars) : LowerChars[i] = c]
                   ELSE c
         IN  {<<x>> \o t : x \in {c, up}, t \in Casings(Tail(w))}

Mysql_ == <<"m", "y", "s", "q", "l">>
Postgres_ == <<"p", "o", "s", "t", "g", "r", "e", "s">>
Sqlite_ == <<"s", "q", "l", "i", "t", "e">>

\* dialect tokens: the names and aliases in every casing, and other words
DialectTokens ==
    Casings(Mysql_) \cup Casings(<<"m">>) \cup Casings(Postgres_) \cup Casings(<<"p">>)
    \cup Casings(Sqlite_)
    \cup {<<>>, <<"s">>, <<"m", "y">>, <<"m", "m">>, <<"p", "g">>, <<"m", "y", "s", "q", "l", "s">>,
          <<"p", "o", "s", "t", "g", "r", "e">>, <<"/", "m">>, <<"M", " ">>}

\* what follows the token: nothing, a path, or a url
ConnRests ==
    {<<>>,
     <<":", "d", "b">>,
     <<":", "/", "/", "u", ":", "p", "@", "h", ":", "1", "/", "d">>}

ConnTexts == {t \o r : t \in DialectTokens, r \in ConnRests}

\* Loader::from_str on a text: the driver of the new Loader
ParseDialect ==
    /\ SqlIdle
    /\ \E w \in ConnTexts :
        /\ dIn' = w
        /\ dOut' = FromStrDriver(w)
    /\ fTree' = <<>>
    /\ fStmt' = [kind |-> "None", where |-> <<>>]
    /\ iIn' = [name |-> "", dtype |-> "-"]
    /\ iOut' = [kind |-> "None", name |-> "", index_type |-> ""]
    /\ UNCHANGED <<loaderVars, db, updateVars, log, result, save_option, bridgeVars, fetchVars>>

----------------------------------------------------------------------------
(* Index descriptor of a series *)

SeriesNames == {"id", "index", "name", "vol", "created_at", "uuid"}

\* the UInt64 arm copied from the UInt32 one
IndexTypeOfNarrow(dtype) ==
    CASE dtype \in {"UInt8", "UInt16", "UInt32", "UInt64", "Int8", "Int16", "Int32"} -> "Int"
      [] dtype = "Int64" -> "BigInt"
      [] dtype = "Utf8" -> "Uuid"
      [] OTHER -> "Err"

\* the match of IndexOption::try_from_series
IndexTypeOf(dtype) ==
    CASE dtype = "UInt8" -> "Int"
      [] dtype = "UInt16" -> "Int"
      [] dtype = "UInt32" -> "Int"
      [] dtype = "UInt64" -> "BigInt"
      [] dtype = "Int8" -> "Int"
      [] dtype = "Int16" -> "Int"
      [] dtype = "Int32" -> "Int"
      [] dtype = "Int64" -> "BigInt"
      [] dtype = "Utf8" -> "Uuid"
      [] OTHER -> "Err"

try_from_series(series) ==
    LET index_type == IndexTypeOf(series.dtype)
    IN  IF index_type = "Err"
        THEN [kind |-> "Err", name |-> "", index_type |-> ""]
        ELSE [kind |-> "Ok", name |-> series.name, index_type |-> index_type]

DeriveIndex ==
    /\ SqlIdle
    /\ \E name \in SeriesNames, dtype \in DTypes :
        /\ iIn' = [name |-> name, dtype |-> dtype]
        /\ iOut' = try_from_series([name |-> name, dtype |-> dtype])
    /\ fTree' = <<>>
    /\ fStmt' = [kind |-> "None", where |-> <<>>]
    /\ dIn' = <<>>
    /\ dOut' = "None"
    /\ UNCHANGED <<loaderVars, db, updateVars, log, result, save_option, bridgeVars, fetchVars>>

----------------------------------------------------------------------------
(* Filter of a Delete or Select statement *)

MaxFilter == 3

\* adt::Expression
Conjunction(c) == [kind |-> "Conjunction", c |-> c]
Simple(column, op, d) == [kind |-> "Simple", column |-> column, equation |-> [op |-> op, d |-> d]]
Nest(n) == [kind |-> "Nest", n |-> n]

\* adt::Equation, with the number of literals each one carries
Equations ==
    {"Equal", "NotEqual", "Greater", "GreaterEqual", "Less", "LessEqual", "In", "Between", "Like"}

EquationLiterals(op) ==
    CASE op = "In" -> {<<"1">>, <<"1", "2">>}
      [] op = "Between" -> {<<"1", "2">>}
      [] op = "Like" -> {<<"a%">>}
      [] OTHER -> {<<"1">>}

\* the comparison of Greater built as the one of GreaterEqual
EquationMethodSlip(op) ==
    CASE op = "Equal" -> "eq"
      [] op = "NotEqual" -> "ne"
      [] op = "Greater" -> "gte"
      [] op = "GreaterEqual" -> "gte"
      [] op = "Less" -> "lt"
      [] op = "LessEqual" -> "lte"
      [] op = "In" -> "is_in"
      [] op = "Between" -> "between"
      [] op = "Like" -> "like"

\* the sea-query method each Equation is built with
EquationMethod(op) ==
    CASE op = "Equal" -> "eq"
      [] op = "NotEqual" -> "ne"
      [] op = "Greater" -> "gt"
      [] op = "GreaterEqual" -> "gte"
      [] op = "Less" -> "lt"
      [] op = "LessEqual" -> "lte"
      [] op = "In" -> "is_in"
      [] op = "Between" -> "between"
      [] op = "Like" -> "like"

\* Expr::col(column).<method>(literals)
SimpleExpr(c) ==
    [col |-> c.column, method |-> EquationMethod(c.equation.op), args |-> c.equation.d]

\* sea-query Cond
CondAll == [type |-> "all", conditions |-> <<>>]
CondAny == [type |-> "any", conditions |-> <<>>]

\* a statement that starts from an any-group
InitialCondAny == <<CondAny>>

\* `vec![Cond::all()]`
InitialCond == <<CondAll>>

\* an OR that opens an all-group
PushCondAll(vec_cond, c) == Append(vec_cond, CondAll)

\* the Conjunction arm: push Cond::all() for AND, Cond::any() for OR
PushCond(vec_cond, c) ==
    Append(vec_cond, IF c = "AND" THEN CondAll ELSE CondAny)

\* the Simple arm: `*mut_last = last.add(tmp_expr)`
AddToLast(vec_cond, e) ==
    LET n == Len(vec_cond)
        last == vec_cond[n]
    IN  [vec_cond EXCEPT ![n] = [last EXCEPT !.conditions = Append(last.conditions, e)]]

\* cond_where of every group of vec_cond, in order
CondWhereAll(s, vec_cond) == [s EXCEPT !.where = s.where \o vec_cond]

RECURSIVE FilterEach(_, _, _)
RECURSIVE filter_builder(_, _)

\* `flt.iter().for_each(...)`: the statement and vec_cond after the nodes
FilterEach(s, vec_cond, flt) ==
    IF flt = <<>> THEN [s |-> s, vec_cond |-> vec_cond]
    ELSE LET e == Head(flt)
         IN  CASE e.kind = "Conjunction" ->
                    FilterEach(s, PushCond(vec_cond, e.c), Tail(flt))
               [] e.kind = "Simple" ->
                    FilterEach(s, AddToLast(vec_cond, SimpleExpr(e)), Tail(flt))
               [] e.kind = "Nest" ->
                    FilterEach(filter_builder(s, e.n), vec_cond, Tail(flt))

filter_builder(s, flt) ==
    LET r == FilterEach(s, InitialCond, flt)
    IN  CondWhereAll(r.s, r.vec_cond)

\* a group on a row, given the set of comparisons true of the row
CondHolds(c, truths) ==
    IF c.type = "all"
    THEN \A i \in 1..Len(c.conditions) : c.conditions[i] \in truths
    ELSE \E i \in 1..Len(c.conditions) : c.conditions[i] \in truths

\* the WHERE clause of a statement: its cond_where groups, all of them
WhereHolds(where, truths) == \A i \in 1..Len(where) : CondHolds(where[i], truths)

DeleteOrSelect == {"Delete", "Select"}

\* sample nodes
SimpleA == Simple("a", "Equal", <<"1">>)
SimpleB == Simple("b", "Greater", <<"2">>)
FlatNodes == {Conjunction("AND"), Conjunction("OR"), SimpleA, SimpleB}
NestNodes == {Nest(n) : n \in {<<>>, <<SimpleB>>, <<SimpleA, SimpleB>>,
                               <<Conjunction("OR"), SimpleA, SimpleB>>,
                               <<SimpleA, Conjunction("OR"), SimpleB>>}}
EquationCases == UNION {{<<op, d>> : d \in EquationLiterals(op)} : op \in Equations}
SingleSimples == {<<Simple(column, od[1], od[2])>> : column \in {"a", "b"}, od \in EquationCases}

FilterTrees == SeqsUpTo(FlatNodes \cup NestNodes, MaxFilter) \cup SingleSimples

\* filter_builder on a fresh Delete or Select statement
BuildFilter ==
    /\ SqlIdle
    /\ \E kind \in DeleteOrSelect, flt \in FilterTrees :
        /\ fTree' = flt
        /\ fStmt' = filter_builder([kind |-> kind, where |-> <<>>], flt)
    /\ dIn' = <<>>
    /\ dOut' = "None"
    /\ iIn' = [name |-> "", dtype |-> "-"]
    /\ iOut' = NoIndex
    /\ UNCHANGED <<loaderVars, db, updateVars, log, result, save_option, bridgeVars, fetchVars>>

----------------------------------------------------------------------------
(* Engine::raw_fetch of the three pools *)

MaxRows == 3

\* a row as the driver yields it: its column names, its cells, and whether
\* its cells can be mapped to dataframe items
ColumnNames == {<<"id">>, <<"id", "vol">>}
RowCells(names) == IF Len(names) = 1 THEN {<<"1">>, <<"2">>} ELSE {<<"1", "0">>}
Rows == UNION {[names : {n}, cells : RowCells(n), mappable : BOOLEAN] : n \in ColumnNames}
RowSets == SeqsUpTo(Rows, MaxRows)

\* row_cols_name_mysql / _pg / _sqlite
row_cols_name(row) == row.names

\* row_to_d1_mysql / _pg / _sqlite: the cells of the row, or the error of
\* the cell that cannot be mapped
row_to_d1(row) ==
    IF row.mappable
    THEN [kind |-> "Ok", d1 |-> row.cells]
    ELSE [kind |-> "Err", d1 |-> <<>>]

\* a closure that takes the names of every row it sees
CaptureColumnsAlways(should, cols, row) == row_cols_name(row)

\* `if should_update_col { columns = row_cols_name(&row); ... }`
CaptureColumns(should, cols, row) == IF should THEN row_cols_name(row) ELSE cols

\* `d2.insert(0, columns)`
InsertHeader(v, cols) == <<cols>> \o v

\* Dataframe::from_vec(d2, "h"): a dataset of the rows of d2, the first one
\* its header
from_vec(v, orient) == [orient |-> orient, header |-> Head(v), data |-> Tail(v)]

NoDataframe == [orient |-> "-", header |-> <<>>, data |-> <<>>]
NoFetch == [kind |-> "None", df |-> NoDataframe]

FetchIdle ==
    /\ rows = <<>>
    /\ ri = 1
    /\ columns = <<>>
    /\ should_update_col = TRUE
    /\ d2 = <<>>
    /\ fetch_pc = "idle"
    /\ fetched = NoFetch

\* raw_fetch is called: the locals are set and the query is sent
RawFetchCall ==
    /\ fetch_pc = "idle"
    /\ fetched = NoFetch
    /\ \E rs \in RowSets : rows' = rs
    /\ ri' = 1
    /\ columns' = <<>>
    /\ should_update_col' = TRUE
    /\ d2' = <<>>
    /\ fetch_pc' = "fetch_all"
    /\ fetched' = [kind |-> "Pending", df |-> NoDataframe]
    /\ UNCHANGED <<loaderVars, db, updateVars, log, result, save_option, bridgeVars, sqlVars>>

\* the try_map closure on the next row; an Err ends fetch_all and `?`
\* returns it
MapRow ==
    /\ fetch_pc = "fetch_all"
    /\ ri <= Len(rows)
    /\ LET row == rows[ri]
           mapped == row_to_d1(row)
       IN  /\ columns' = CaptureColumns(should_update_col, columns, row)
           /\ should_update_col' = FALSE
           /\ ri' = ri + 1
           /\ IF mapped.kind = "Ok"
              THEN /\ d2' = Append(d2, mapped.d1)
                   /\ UNCHANGED <<fetch_pc, fetched>>
              ELSE /\ d2' = <<>>
                   /\ fetch_pc' = "idle"
                   /\ fetched' = [kind |-> "Err", df |-> NoDataframe]
    /\ UNCHANGED <<rows, loaderVars, db, updateVars, log, result, save_option, bridgeVars, sqlVars>>

\* the driver fails while the rows are read: `.fetch_all(self).await?`
FetchFail ==
    /\ fetch_pc = "fetch_all"
    /\ d2' = <<>>
    /\ fetch_pc' = "idle"
    /\ fetched' = [kind |-> "Err", df |-> NoDataframe]
    /\ UNCHANGED <<rows, ri, columns, should_update_col,
                   loaderVars, db, updateVars, log, result, save_option, bridgeVars, sqlVars>>

\* fetch_all returned every row: the header goes first and the dataset is built
FetchReturn ==
    /\ fetch_pc = "fetch_all"
    /\ ri > Len(rows)
    /\ d2' = InsertHeader(d2, columns)
    /\ fetched' = [kind |-> "Ok", df |-> from_vec(InsertHeader(d2, columns), "h")]
    /\ fetch_pc' = "idle"
    /\ UNCHANGED <<rows, ri, columns, should_update_col,
                   loaderVars, db, updateVars, log, result, save_option, bridgeVars, sqlVars>>

BridgeIdle ==
    /\ bIn = [value |-> NoValue, dtype |-> "-", nullable |-> FALSE]
    /\ bOut = NoResult(NoSValue)
    /\ bBack = NoResult(NoValue)

Init ==
    /\ \E l \in Loaders :
        /\ driver = l.driver
        /\ conn = l.conn
        /\ pool = l.pool
    /\ db \in Tables
    /\ work = db
    /\ txOpen = FALSE
    /\ pc = "idle"
    /\ queries = <<>>
    /\ qi = 1
    /\ affected_rows = 0
    /\ snapshot = db
    /\ log = <<>>
    /\ result = [op |-> "none", kind |-> "None", err |-> NoErr, val |-> 0]
    /\ save_option = "None"
    /\ BridgeIdle
    /\ SqlIdle
    /\ FetchIdle

Next ==
    \/ Connect
    \/ GetTableSchema
    \/ RawFetch
    \/ CreateTable
    \/ Insert
    \/ UpdateCall
    \/ Begin
    \/ ExecStmt
    \/ Commit
    \/ Cancel
    \/ CancelInCommit
    \/ Save

Spec == Init /\ [][Next]_vars

----------------------------------------------------------------------------
(* Specification of the value bridge *)

\* a Loader that is built and not used, in front of an empty table
EngineIdle ==
    /\ driver = "Sqlite"
    /\ conn = CONN3
    /\ pool = "None"
    /\ db = [k \in Keys |-> NoRow]
    /\ work = db
    /\ txOpen = FALSE
    /\ pc = "idle"
    /\ queries = <<>>
    /\ qi = 1
    /\ affected_rows = 0
    /\ snapshot = db
    /\ log = <<>>
    /\ result = [op |-> "none", kind |-> "None", err |-> NoErr, val |-> 0]
    /\ save_option = "None"

InitBridge ==
    /\ EngineIdle
    /\ BridgeIdle
    /\ SqlIdle
    /\ FetchIdle

NextBridge ==
    \/ ToNeutral
    \/ FromNeutral
    \/ FromRow

SpecBridge == InitBridge /\ [][NextBridge]_vars

----------------------------------------------------------------------------
(* Specification of the sql builder *)

InitSql ==
    /\ EngineIdle
    /\ BridgeIdle
    /\ SqlIdle
    /\ FetchIdle

NextSql ==
    \/ ParseDialect
    \/ DeriveIndex
    \/ BuildFilter

SpecSql == InitSql /\ [][NextSql]_vars

----------------------------------------------------------------------------
(* Specification of raw_fetch *)

InitFetch ==
    /\ EngineIdle
    /\ BridgeIdle
    /\ SqlIdle
    /\ FetchIdle

NextFetch ==
    \/ RawFetchCall
    \/ MapRow
    \/ FetchFail
    \/ FetchReturn

SpecFetch == InitFetch /\ [][NextFetch]_vars

----------------------------------------------------------------------------
(* Properties of Engine::update *)

UpdateReturned == pc = "idle" /\ result.op = "update"

ExecIdx == {j \in 1..Len(log) : log[j].call = "execute"}
FailedIdx == {j \in 1..Len(log) : ~log[j].ok}
CommitIdx == {j \in 1..Len(log) : log[j].call = "commit"}

\* C1: when statement k (1 <= k <= N) of an update batch fails, the database
\* after update has returned is the database as it was before the call, on
\* the pool of every dialect.
C1_UpdateAtomic ==
    (/\ UpdateReturned
     /\ result.kind = "Err"
     /\ result.err.msg = "execute"
     /\ result.err.at \in 1..Len(queries))
    => db = snapshot

\* C1 witness: statement 2 failed after statement 1 had changed a row inside
\* the transaction.
C1_Witness ==
    /\ UpdateReturned
    /\ result.kind = "Err"
    /\ result.err.msg = "execute"
    /\ result.err.at = 2
    /\ work # snapshot
    /\ db = snapshot

\* C2: update begins the transaction before the first statement, executes
\* the statements in list order, each at most once, executes nothing after
\* the first failure, and issues commit at most once, only after every
\* statement has succeeded and never after a failure; a successful update
\* has issued commit exactly once.
C2_OrderedOnceNoRetry ==
    (result.op = "update") =>
        /\ log # <<>> => log[1].call = "begin"
        /\ \A j \in 2..Len(log) : log[j].call # "begin"
        /\ \A j \in ExecIdx :
              log[j].idx = Cardinality({h \in ExecIdx : h <= j})
        /\ \A j \in FailedIdx : \A h \in (j + 1)..Len(log) : log[h].call = "rollback"
        /\ Cardinality(CommitIdx) <= 1
        /\ \A c \in CommitIdx :
              /\ Cardinality({h \in ExecIdx : h < c}) = Len(queries)
              /\ \A h \in 1..(c - 1) : log[h].ok
        /\ (UpdateReturned /\ result.kind = "Ok") =>
              /\ Cardinality(CommitIdx) = 1
              /\ \A h \in 1..Len(log) : log[h].ok

\* C2 witness: a batch of two statements was executed and committed.
C2_Witness ==
    /\ UpdateReturned
    /\ result.kind = "Ok"
    /\ Len(queries) = 2
    /\ Len(log) = 4
    /\ log[2].idx = 1
    /\ log[3].idx = 2
    /\ log[4].call = "commit"

CancelledBeforeCommit == UpdateReturned /\ result.kind = "Cancelled"

C4_RolledBack ==
    CancelledBeforeCommit =>
        /\ ~txOpen
        /\ db = snapshot
        /\ CommitIdx = {}
        /\ (\E j \in 1..Len(log) : log[j] = Call("begin", 0, TRUE))
              => log[Len(log)] = Call("rollback", 0, TRUE)

C4_VisibleOnlyByCommit ==
    (pc # "idle" /\ db' # db) =>
        /\ db' = work
        /\ qi > Len(queries)
        /\ \A h \in 1..Len(log) : log[h].ok
        /\ Cardinality(ExecIdx) = Len(queries)
        /\ log' = Append(log, Call("commit", 0, TRUE))

----------------------------------------------------------------------------
(* Properties of the Loader *)

C5_FailsWithoutIO ==
    (pool = "None" /\ result.op \in DataOps) =>
        /\ result = Err(result.op, DB_COMMON_ERROR)
        /\ log = <<>>

C5_StateUnchanged ==
    (pool = "None" /\ result'.op \in DataOps) =>
        UNCHANGED <<driver, conn, pool, db>>

\* C5: while the pool of a Loader is absent, get_table_schema, raw_fetch,
\* create_table and insert return the "Loader pool not set" error, issue no
\* driver call and leave the Loader and the database unchanged.
C5_Unconnected == [](C5_FailsWithoutIO) /\ [][C5_StateUnchanged]_vars

\* C5 witness: insert was called on a Loader without a pool.
C5_Witness ==
    /\ pool = "None"
    /\ result = Err("insert", DB_COMMON_ERROR)
    /\ log = <<>>

C6_Step ==
    /\ (pool = "None" /\ pool' # "None") =>
          /\ result' = Ok("connect", 0)
          /\ log' = <<Call("connect", 0, TRUE)>>
          /\ pool' = driver
    /\ (result'.op = "connect" /\ log' = <<Call("connect", 0, FALSE)>>) =>
          /\ result' = Err("connect", SqlxError("connect", 0))
          /\ pool' = pool
    /\ (pool # "None") => (pool' # "None")

\* C6: a Loader starts without a pool; only a successful connect gives it
\* one; a failed connect returns a connection error and leaves the pool as
\* it was; once connected, no operation takes the pool away.
C6_ConnectionStates == (pool = "None") /\ [][C6_Step]_vars

\* C6 witness: a connected Loader on which a data operation has failed.
C6_Witness ==
    /\ pool # "None"
    /\ result.op \in DataOps
    /\ result.kind = "Err"

----------------------------------------------------------------------------
(* Properties of the value bridge *)

BridgedForward == bIn.value.tag # "-"
BridgedBack == BridgedForward /\ bBack.kind # "None"
NullIn == bIn.value = ValueNull

SupportedIn ==
    \/ bIn.value.tag \in SupportedValueTags
    \/ NullIn /\ bIn.nullable /\ bIn.dtype \in SupportedDTypes

C8_NullDisciplineEveryType ==
    NullIn =>
        IF bIn.nullable
        THEN /\ bOut.kind = "Ok"
             /\ BridgedBack => bBack = ROk(ValueNull)
        ELSE bOut.kind = "Err"

\* C8 amended: a null Value against a non-nullable column fails with an
\* error for every column type; against a nullable column of a supported
\* type (Boolean, UInt8..UInt64, Int8..Int64, Float32, Float64, Utf8) it
\* succeeds and comes back as null.
C8_NullDiscipline ==
    NullIn =>
        /\ ~bIn.nullable => bOut = RErr(NoSValue, ParseError(bIn.dtype))
        /\ (bIn.nullable /\ bIn.dtype \in SupportedDTypes) =>
              /\ bOut.kind = "Ok"
              /\ ~bOut.val.some
              /\ BridgedBack => bBack = ROk(ValueNull)

\* C8 witness: the null of a nullable Int64 column went to the neutral
\* value and came back as null.
C8_Witness ==
    /\ NullIn
    /\ bIn.nullable
    /\ bIn.dtype = "Int64"
    /\ bOut = ROk(SNone("BigInt"))
    /\ bBack = ROk(ValueNull)

\* C9: an SValue of any variant with an absent payload is bridged to
\* Value::Null when the column is nullable, and to the "unsupported type"
\* error when it is not.
C9_AbsentPayload ==
    (bOut.kind = "Given" /\ ~bOut.val.some) =>
        bBack = IF bIn.nullable THEN ROk(ValueNull)
                ELSE RErr(NoValue, CommonError("unsupported type"))

UnsupportedForward ==
    /\ BridgedForward
    /\ \/ bIn.value.tag \in DateValueTags
       \/ NullIn /\ bIn.dtype \in UnsupportedDTypes

UnsupportedBackward == bOut.kind = "Given" /\ bOut.val.tag \in DateSValueTags

\* C10: bridging an unsupported type, in either direction, returns an error
\* value: no converted value, and no abnormal termination.
C10_UnsupportedReturnsError ==
    /\ UnsupportedForward => bOut.kind = "Err"
    /\ UnsupportedBackward => bBack.kind = "Err"

\* C11: on a nullable column of a supported type T, a null is bridged to the
\* absent payload of the very SValue variant that a value of type T is
\* bridged to.
C11_TypedNull ==
    (NullIn /\ bIn.nullable /\ bIn.dtype \in SupportedDTypes) =>
        \A tag \in SupportedValueTags :
            ValuePayloadType(tag) = DTypeNative(bIn.dtype) =>
                /\ bOut = ROk(SNone(SValueTagOf(tag)))
                /\ \A p \in PayloadsOf(ValuePayloadType(tag)) :
                      try_from_value_to_svalue(MkValue(tag, p), bIn.dtype, TRUE).val.tag
                          = bOut.val.tag

\* C11 witness: the null of a nullable UInt8 column became TinyUnsigned(None).
C11_Witness ==
    /\ NullIn
    /\ bIn.nullable
    /\ bIn.dtype = "UInt8"
    /\ bOut = ROk(SNone("TinyUnsigned"))

----------------------------------------------------------------------------
(* Properties of Engine::save and of the Loader's construction *)

\* C12: save with strategy Upsert or Fail returns an error to the caller,
\* reports no success, and executes no statement.
C12_SaveUnsupported ==
    (result.op = "save" /\ save_option \in {"Upsert", "Fail"}) =>
        /\ result.kind = "Err"
        /\ log = <<>>
        /\ db = snapshot

\* C17: the dialect and the connection string of a Loader never change after
\* construction, and every pool that connect stores is of that dialect.
C17_DialectFixed ==
    /\ [](pool \in {"None", driver})
    /\ [][driver' = driver /\ conn' = conn]_vars

\* C17 witness: a Postgres Loader has connected and inserted a row.
C17_Witness ==
    /\ driver = "Postgres"
    /\ pool = "Postgres"
    /\ conn = CONN2
    /\ result = Ok("insert", 1)

\* C18: whichever of new and from_str built the Loader, its connection
\* string is the text "<dialect>://<user>:<password>@<host>:<port>/<database>"
\* of the tests for its dialect; from_str keeps its input as it is.
C18_SameConn ==
    /\ \A c \in ConnStrings : driver = SqlFrom(c.scheme) => conn = c
    /\ \A ci \in ConnInfos : driver = ci.driver => conn = ConnInfoToString(ci)

\* C18 witness: a MySQL Loader, not yet used, holds the text of CONN1.
C18_Witness ==
    /\ result.op = "none"
    /\ driver = "Mysql"
    /\ conn = CONN1
    /\ conn.rest = "//root:secret@localhost:3306/dev"

----------------------------------------------------------------------------
(* Properties of the sql builder *)

C15_Upper(c) ==
    CASE c = "m" -> "M" [] c = "y" -> "Y" [] c = "s" -> "S" [] c = "q" -> "Q"
      [] c = "l" -> "L" [] c = "p" -> "P" [] c = "o" -> "O" [] c = "t" -> "T"
      [] c = "g" -> "G" [] c = "r" -> "R" [] c = "e" -> "E" [] c = "i" -> "I"

C15_IsCasingOf(t, w) ==
    /\ Len(t) = Len(w)
    /\ \A i \in 1..Len(w) : t[i] \in {w[i], C15_Upper(w[i])}

\* the text before the first ':'
C15_Token(w) ==
    LET colons == {i \in 1..Len(w) : w[i] = ":"}
        n == IF colons = {} THEN Len(w)
             ELSE (CHOOSE i \in colons : \A j \in colons : i <= j) - 1
    IN  SubSeq(w, 1, n)

\* C15: from_str chooses MySQL for any casing of "mysql" or "m" before the
\* first ':', PostgreSQL for any casing of "postgres" or "p", and SQLite for
\* every other text, the empty one included.
C15_DialectToken ==
    (dOut # "None") =>
        LET t == C15_Token(dIn)
        IN  dOut = IF C15_IsCasingOf(t, <<"m", "y", "s", "q", "l">>) \/ C15_IsCasingOf(t, <<"m">>)
                   THEN "Mysql"
                   ELSE IF \/ C15_IsCasingOf(t, <<"p", "o", "s", "t", "g", "r", "e", "s">>)
                           \/ C15_IsCasingOf(t, <<"p">>)
                        THEN "Postgres"
                        ELSE "Sqlite"

\* C15 witness: "PostGres://u:p@h:1/d" was read as PostgreSQL.
C15_Witness ==
    /\ dIn = <<"P", "o", "s", "t", "G", "r", "e", "s", ":", "/", "/", "u", ":", "p", "@", "h", ":", "1", "/", "d">>
    /\ dOut = "Postgres"

\* C16: the index descriptor of a series is Int for 8/16/32-bit integers,
\* BigInt for 64-bit integers and Uuid for strings, with the name of the
\* series; every other type gives an error and no descriptor.
C16_IndexFromSeries ==
    (iOut.kind # "None") =>
        /\ iIn.dtype \in {"UInt8", "UInt16", "UInt32", "Int8", "Int16", "Int32"} =>
              iOut = [kind |-> "Ok", name |-> iIn.name, index_type |-> "Int"]
        /\ iIn.dtype \in {"UInt64", "Int64"} =>
              iOut = [kind |-> "Ok", name |-> iIn.name, index_type |-> "BigInt"]
        /\ iIn.dtype = "Utf8" =>
              iOut = [kind |-> "Ok", name |-> iIn.name, index_type |-> "Uuid"]
        /\ iIn.dtype \in {"Boolean", "Float32", "Float64"} \cup UnsupportedDTypes =>
              iOut = [kind |-> "Err", name |-> "", index_type |-> ""]

\* C16 witness: a UInt64 series named "id" gave a BigInt index on "id".
C16_Witness ==
    /\ iIn = [name |-> "id", dtype |-> "UInt64"]
    /\ iOut = [kind |-> "Ok", name |-> "id", index_type |-> "BigInt"]

C_Flat == \A i \in 1..Len(fTree) : fTree[i].kind # "Nest"
C_ConjAt == {p \in 1..Len(fTree) : fTree[p].kind = "Conjunction"}

\* C13: an empty filter tree restricts nothing: the statement has one
\* all-group without comparisons, and its WHERE holds of every row.
C13_EmptyMatchesAll ==
    (fStmt.kind # "None" /\ fTree = <<>>) =>
        /\ \A i \in 1..Len(fStmt.where) : fStmt.where[i].conditions = <<>>
        /\ WhereHolds(fStmt.where, {})
        /\ WhereHolds(fStmt.where, {SimpleExpr(SimpleA), SimpleExpr(SimpleB)})

\* C13 witness: a Delete was built from the empty tree.
C13_Witness ==
    /\ fStmt.kind = "Delete"
    /\ fTree = <<>>
    /\ fStmt.where = <<[type |-> "all", conditions |-> <<>>]>>

C14_Method(op) ==
    CASE op = "Equal" -> "eq" [] op = "NotEqual" -> "ne"
      [] op = "Greater" -> "gt" [] op = "GreaterEqual" -> "gte"
      [] op = "Less" -> "lt" [] op = "LessEqual" -> "lte"
      [] op = "In" -> "is_in" [] op = "Between" -> "between" [] op = "Like" -> "like"

\* C14: a tree of one Simple node gives exactly the comparison of its
\* column against its literals with its operator, in one all-group and
\* nothing else.
C14_SingleSimple ==
    (fStmt.kind # "None" /\ Len(fTree) = 1 /\ fTree[1].kind = "Simple") =>
        fStmt.where = <<[type |-> "all",
                         conditions |-> <<[col |-> fTree[1].column,
                                           method |-> C14_Method(fTree[1].equation.op),
                                           args |-> fTree[1].equation.d]>>]>>

\* C14 witness: `b > 1` alone in a Select.
C14_Witness ==
    /\ fStmt.kind = "Select"
    /\ fTree = <<Simple("b", "Greater", <<"1">>)>>
    /\ fStmt.where = <<[type |-> "all",
                        conditions |-> <<[col |-> "b", method |-> "gt", args |-> <<"1">>]>>]>>

\* position of the k-th Conjunction of the tree; 0 for k = 0 and one past
\* the end when there is none
C19_ConjPos(k) ==
    IF k = 0 THEN 0
    ELSE IF k > Cardinality(C_ConjAt) THEN Len(fTree) + 1
    ELSE CHOOSE p \in C_ConjAt : Cardinality({q \in C_ConjAt : q <= p}) = k

\* C19: a flat tree with n Conjunctions gives n + 1 groups joined by AND:
\* the first an all-group, the i-th after it an all-group for AND and an
\* any-group for OR, each holding the comparisons that follow its
\* Conjunction, in order.
C19_FlatGroups ==
    (fStmt.kind # "None" /\ C_Flat) =>
        /\ Len(fStmt.where) = Cardinality(C_ConjAt) + 1
        /\ \A g \in 0..Cardinality(C_ConjAt) :
            LET from == C19_ConjPos(g)
                to == C19_ConjPos(g + 1)
                group == fStmt.where[g + 1]
            IN  /\ group.type = IF g = 0 \/ fTree[from].c = "AND" THEN "all" ELSE "any"
                /\ group.conditions = [j \in 1..(to - from - 1) |-> SimpleExpr(fTree[from + j])]

\* C19 witness: `OR, b > 2, a = 1` gave all(), any(b > 2, a = 1).
C19_Witness ==
    /\ fTree = <<Conjunction("OR"), SimpleB, SimpleA>>
    /\ fStmt.where = <<[type |-> "all", conditions |-> <<>>],
                       [type |-> "any", conditions |-> <<SimpleExpr(SimpleB), SimpleExpr(SimpleA)>>]>>

RECURSIVE C20_GroupsOf(_, _)
\* the groups of a tree as the nodes that follow each Conjunction
C20_GroupsOf(flt, groups) ==
    IF flt = <<>> THEN groups
    ELSE LET e == Head(flt)
             n == Len(groups)
         IN  IF e.kind = "Conjunction"
             THEN C20_GroupsOf(Tail(flt), Append(groups, [c |-> e.c, members |-> <<>>]))
             ELSE C20_GroupsOf(Tail(flt),
                               [groups EXCEPT ![n].members = Append(groups[n].members, e)])

RECURSIVE C20_TreeHolds(_, _)
\* a tree on a row when a Nest is one member of the group it stands in
C20_TreeHolds(flt, truths) ==
    LET groups == C20_GroupsOf(flt, <<[c |-> "AND", members |-> <<>>]>>)
        MemberHolds(e) == IF e.kind = "Nest" THEN C20_TreeHolds(e.n, truths)
                          ELSE SimpleExpr(e) \in truths
    IN  \A g \in 1..Len(groups) :
            IF groups[g].c = "AND"
            THEN \A m \in 1..Len(groups[g].members) : MemberHolds(groups[g].members[m])
            ELSE \E m \in 1..Len(groups[g].members) : MemberHolds(groups[g].members[m])

\* C20: a Nest node is compiled on its own and stands as one member of the
\* group that is last when it is met, so the statement selects the rows the
\* tree selects with each Nest read as a parenthesised member.
C20_NestFolded ==
    (fStmt.kind # "None" /\ ~C_Flat) =>
        \A truths \in SUBSET {SimpleExpr(SimpleA), SimpleExpr(SimpleB)} :
            WhereHolds(fStmt.where, truths) = C20_TreeHolds(fTree, truths)

----------------------------------------------------------------------------
(* The count returned by update *)

RECURSIVE C22_Counts(_, _)
\* the counts the statements of a batch report, run in order on table t
C22_Counts(t, qs) ==
    IF qs = <<>> THEN <<>>
    ELSE LET q == Head(qs)
             hit == t[q.key] # NoRow
         IN  <<IF hit THEN 1 ELSE 0>>
             \o C22_Counts(IF hit THEN [t EXCEPT ![q.key] = q.val] ELSE t, Tail(qs))

RECURSIVE C22_Sum(_)
C22_Sum(ns) == IF ns = <<>> THEN 0 ELSE Head(ns) + C22_Sum(Tail(ns))

\* C22: a successful update returns the sum of the affected-row counts of
\* the statements of its batch; an empty batch begins and commits an empty
\* transaction and returns 0; an update in which a statement or the commit
\* failed returns no count.
C22_AffectedRows ==
    UpdateReturned =>
        /\ result.kind = "Ok" =>
              /\ result.val = C22_Sum(C22_Counts(snapshot, queries))
              /\ queries = <<>> =>
                    /\ result.val = 0
                    /\ log = <<Call("begin", 0, TRUE), Call("commit", 0, TRUE)>>
        /\ (\E j \in 1..Len(log) : log[j].call \in {"execute", "commit"} /\ ~log[j].ok) =>
              /\ result.kind # "Ok"
              /\ result.val = 0

\* C22 witness: two statements that each changed one row returned 2.
C22_Witness ==
    /\ UpdateReturned
    /\ result = Ok("update", 2)
    /\ Len(queries) = 2
    /\ queries[1].key # queries[2].key

----------------------------------------------------------------------------
(* Row mapping of raw_fetch *)

FetchReturned == fetch_pc = "idle" /\ fetched.kind \in {"Ok", "Err"}

C21_ColumnsOfFirstRow ==
    /\ (fetch_pc = "fetch_all" /\ ri > 1) => columns = rows[1].names
    /\ (fetch_pc = "fetch_all" /\ ri = 1) => columns = <<>>

C21_Dataset ==
    (FetchReturned /\ fetched.kind = "Ok" /\ Len(rows) >= 1) =>
        /\ fetched.df.header = rows[1].names
        /\ fetched.df.data = [i \in 1..Len(rows) |-> rows[i].cells]
        /\ d2 = <<rows[1].names>> \o [i \in 1..Len(rows) |-> rows[i].cells]

C21_NoPartial ==
    (FetchReturned /\ \E i \in 1..Len(rows) : ~rows[i].mappable) =>
        /\ fetched.kind = "Err"
        /\ fetched.df = NoDataframe

C21_Captured == (fetch_pc = "fetch_all" /\ ri > 1 /\ fetch_pc' = "fetch_all") => columns' = columns

\* C21: raw_fetch takes the column names from the first row and no later
\* row changes them; a fetch of n >= 1 rows gives the dataset of that header
\* and the n mapped rows in the order of the driver; a fetch with a row that
\* cannot be mapped gives an error and no dataset.
C21_RowMapping ==
    /\ [](C21_ColumnsOfFirstRow /\ C21_Dataset /\ C21_NoPartial)
    /\ [][C21_Captured]_vars

\* C21 witness: two rows with different column names, both mapped; the
\* header is the one of the first.
C21_Witness ==
    /\ FetchReturned
    /\ fetched.kind = "Ok"
    /\ Len(rows) = 2
    /\ rows[1].names = <<"id", "vol">>
    /\ rows[2].names = <<"id">>
    /\ fetched.df.header = <<"id", "vol">>
    /\ fetched.df.data = <<<<"1", "0">>, rows[2].cells>>

====
